---- MODULE Spec2Model ----
(***************************************************************************)
(* EXIFDataDailyReport.py: process_folder (scan, sort by time of day,      *)
(* cycle walk, totals, summary) and the command-line driver.               *)
(*                                                                         *)
(* Conventions.  A Python dict is a function whose DOMAIN is its key set.  *)
(* A Python list is a sequence; Python index k is sequence index k+1 (see  *)
(* At).  None is the empty tuple.  A timedelta is its number of seconds.   *)
(* A timestamp string is the tuple of its whitespace-separated tokens; a   *)
(* token is the tuple of its ':'-separated numeric fields.  The f-string   *)
(* 'CYCLE n' is the pair <<"CYCLE", n>>.                                    *)
(***************************************************************************)
EXTENDS Integers, Sequences, FiniteSets, TLC

\* ---------------------------------------------------------------- bounds
MaxImages == 3          \* images visited by the scan loop of one run
MaxFolders == 2         \* subfolders os.walk finds under the parent folder
MaxMainImages == 2      \* images per category in the command-line runs
MaxReprompts == 1       \* times a folder prompt is answered with a missing path

\* ------------------------------------------------------ program constants
GapThreshold == 60      \* `time_difference.total_seconds() >= 60`

None == <<>>

\* ------------------------------------------------------------ input values
\* Time-of-day tokens that '%H:%M:%S' parses.
Times == { <<9, 0, 0>>, <<9, 0, 30>>, <<9, 1, 30>>, <<9, 5, 0>>, <<9, 5, 20>> }

\* A time token strptime rejects: 'HH:MM'.
BadTimes == { <<9, 5>> }

DateToken == <<2023, 1, 1>>

\* What Image.open / _getexif / .get(36867) can give for one file.
\*   OpenError : Image.open raises
\*   NoExif    : _getexif() returns None, so .get raises AttributeError
\*   NoTag     : the tag is absent, .get returns None
\*   Tag       : the tag's string, as its tokens (<<>> is the empty string)
ExifOutcomes ==
    { [kind |-> k, tokens |-> <<>>] : k \in {"OpenError", "NoExif", "NoTag", "Tag"} }
      \cup { [kind |-> "Tag", tokens |-> <<DateToken>>] }
      \cup { [kind |-> "Tag", tokens |-> <<DateToken, t>>] : t \in Times \cup BadTimes }
      \cup { [kind |-> "Tag", tokens |-> <<DateToken, <<9, 0, 0>>, <<1>> >>] }

FolderTypes == {"VISUAL", "THERMAL"}

\* ------------------------------------------------------------ Python glue
At(list, k) == list[k + 1]

Last(list) == list[Len(list)]

DictSet(d, key, value) ==
    [k \in DOMAIN d \cup {key} |-> IF k = key THEN value ELSE d[k]]

DictGet(d, key, default) == IF key \in DOMAIN d THEN d[key] ELSE default

\* datetime.strptime(s, '%H:%M:%S') succeeds
StrptimeOk(tok) ==
    /\ Len(tok) = 3
    /\ tok[1] \in 0..23
    /\ tok[2] \in 0..59
    /\ tok[3] \in 0..59

\* datetime.strptime(s, '%H:%M:%S'), as seconds after 1900-01-01 00:00:00
Strptime(tok) == tok[1] * 3600 + tok[2] * 60 + tok[3]

\* str(timedelta) for 0 <= d < one day: 'H:MM:SS', as its three fields
StrTimedelta(d) == << d \div 3600, (d % 3600) \div 60, d % 60 >>

CycleLabel(n) == <<"CYCLE", n>>

\* ------------------------------------------------------------ scan (27-45)
\* The body of the inner loop for one image: the value of date_taken after
\* the try/except.
DateTaken(exif) ==
    IF exif.kind = "Tag" THEN exif.tokens ELSE None

\* Lines 35-45.  [raised, metadata]: raised is "ValueError" when the
\* two-name unpacking of date_taken.split() fails, else "".  None and the
\* empty string are both falsy and both are <<>> here.
ScanImage(md, exif, image, folder, ftype) ==
    LET date_taken == DateTaken(exif) IN
    IF date_taken = None
    THEN [raised |-> "", metadata |-> md]
    ELSE IF Len(date_taken) # 2
    THEN [raised |-> "ValueError", metadata |-> md]
    ELSE [raised |-> "",
          metadata |-> Append(md, [DateTaken |-> date_taken[1],
                                   TimeTaken |-> date_taken[2],
                                   Image     |-> image,
                                   Pole      |-> folder,
                                   Type      |-> ftype])]

\* ------------------------------------------------------------ sort (48)
SortKeyOk(md) == \A k \in 1..Len(md) : StrptimeOk(md[k].TimeTaken)

RECURSIVE InsertUnstable(_, _)
InsertUnstable(sorted, x) ==
    IF sorted = <<>> THEN <<x>>
    ELSE IF Strptime(Head(sorted).TimeTaken) < Strptime(x.TimeTaken)
         THEN <<Head(sorted)>> \o InsertUnstable(Tail(sorted), x)
         ELSE <<x>> \o sorted

\* (InsertUnstable: a sort that is not stable; UnsortedByTime: no sort.)
\* x goes after the last element whose key is <= its own: list.sort is stable.
RECURSIVE InsertByKey(_, _)
InsertByKey(sorted, x) ==
    IF sorted = <<>> THEN <<x>>
    ELSE IF Strptime(Head(sorted).TimeTaken) <= Strptime(x.TimeTaken)
         THEN <<Head(sorted)>> \o InsertByKey(Tail(sorted), x)
         ELSE <<x>> \o sorted

UnsortedByTime(md) == md

RECURSIVE SortByTime(_)
SortByTime(md) ==
    IF md = <<>> THEN <<>>
    ELSE InsertByKey(SortByTime(SubSeq(md, 1, Len(md) - 1)), Last(md))


\* ------------------------------------------------------------ walk (51-68)
\* The state of the walk is [metadata, cycle_count, cycle_start_time,
\* total_cycle_duration]; cycle_start_time is None or <<seconds>> (a
\* datetime is always truthy).
WalkInit(md) ==
    [metadata |-> md, cycle_count |-> 1, cycle_start_time |-> None,
     total_cycle_duration |-> 0]

Gap(md, i) == Strptime(At(md, i).TimeTaken) - Strptime(At(md, i - 1).TimeTaken)

\* Variants of WalkStep, each with one slip, used to test the properties below.
\* The boundary test is > instead of >=.
WalkStepStrictGap(w, i) ==
    LET md == w.metadata
        cycle_duration == Strptime(At(md, i - 1).TimeTaken) - w.cycle_start_time[1]
        labelled == DictSet(At(md, i - 1), "CycleCount", CycleLabel(w.cycle_count))
    IN  IF Gap(md, i) > GapThreshold
        THEN IF w.cycle_start_time # None
             THEN [metadata |-> [md EXCEPT ![i] = DictSet(labelled, "CycleTotalHour",
                                                         StrTimedelta(cycle_duration))],
                   cycle_count |-> w.cycle_count + 1,
                   cycle_start_time |-> None,
                   total_cycle_duration |-> w.total_cycle_duration + cycle_duration]
             ELSE [metadata |-> [md EXCEPT ![i] = labelled],
                   cycle_count |-> w.cycle_count + 1,
                   cycle_start_time |-> None,
                   total_cycle_duration |-> w.total_cycle_duration]
        ELSE IF w.cycle_start_time = None
             THEN [w EXCEPT !.cycle_start_time = <<Strptime(At(md, i - 1).TimeTaken)>>]
             ELSE w

\* The cycle start is taken from record i instead of record i-1.
WalkStepStartAtI(w, i) ==
    LET md == w.metadata
        cycle_duration == Strptime(At(md, i - 1).TimeTaken) - w.cycle_start_time[1]
        labelled == DictSet(At(md, i - 1), "CycleCount", CycleLabel(w.cycle_count))
    IN  IF Gap(md, i) >= GapThreshold
        THEN IF w.cycle_start_time # None
             THEN [metadata |-> [md EXCEPT ![i] = DictSet(labelled, "CycleTotalHour",
                                                         StrTimedelta(cycle_duration))],
                   cycle_count |-> w.cycle_count + 1,
                   cycle_start_time |-> None,
                   total_cycle_duration |-> w.total_cycle_duration + cycle_duration]
             ELSE [metadata |-> [md EXCEPT ![i] = labelled],
                   cycle_count |-> w.cycle_count + 1,
                   cycle_start_time |-> None,
                   total_cycle_duration |-> w.total_cycle_duration]
        ELSE IF w.cycle_start_time = None
             THEN [w EXCEPT !.cycle_start_time = <<Strptime(At(md, i).TimeTaken)>>]
             ELSE w

\* The cycle start is not cleared at a boundary.
WalkStepNoReset(w, i) ==
    LET md == w.metadata
        cycle_duration == Strptime(At(md, i - 1).TimeTaken) - w.cycle_start_time[1]
        labelled == DictSet(At(md, i - 1), "CycleCount", CycleLabel(w.cycle_count))
    IN  IF Gap(md, i) >= GapThreshold
        THEN IF w.cycle_start_time # None
             THEN [metadata |-> [md EXCEPT ![i] = DictSet(labelled, "CycleTotalHour",
                                                         StrTimedelta(cycle_duration))],
                   cycle_count |-> w.cycle_count + 1,
                   cycle_start_time |-> w.cycle_start_time,
                   total_cycle_duration |-> w.total_cycle_duration + cycle_duration]
             ELSE [metadata |-> [md EXCEPT ![i] = labelled],
                   cycle_count |-> w.cycle_count + 1,
                   cycle_start_time |-> None,
                   total_cycle_duration |-> w.total_cycle_duration]
        ELSE IF w.cycle_start_time = None
             THEN [w EXCEPT !.cycle_start_time = <<Strptime(At(md, i - 1).TimeTaken)>>]
             ELSE w

\* One iteration of `for i in range(1, len(metadata))`, lines 55-68.
WalkStep(w, i) ==
    LET md == w.metadata
        time_difference == Gap(md, i)
        cycle_end_time == Strptime(At(md, i - 1).TimeTaken)
        cycle_duration == cycle_end_time - w.cycle_start_time[1]
        labelled == DictSet(At(md, i - 1), "CycleCount", CycleLabel(w.cycle_count))
    IN  IF time_difference >= GapThreshold
        THEN IF w.cycle_start_time # None
             THEN [metadata |-> [md EXCEPT ![i] = DictSet(labelled, "CycleTotalHour",
                                                         StrTimedelta(cycle_duration))],
                   cycle_count |-> w.cycle_count + 1,
                   cycle_start_time |-> None,
                   total_cycle_duration |-> w.total_cycle_duration + cycle_duration]
             ELSE [metadata |-> [md EXCEPT ![i] = labelled],
                   cycle_count |-> w.cycle_count + 1,
                   cycle_start_time |-> None,
                   total_cycle_duration |-> w.total_cycle_duration]
        ELSE IF w.cycle_start_time = None
             THEN [w EXCEPT !.cycle_start_time = <<Strptime(At(md, i - 1).TimeTaken)>>]
             ELSE w

\* Lines 71-76: the trailing cycle.
TailStep(w) ==
    LET md == w.metadata
        cycle_end_time == Strptime(Last(md).TimeTaken)
        cycle_duration == cycle_end_time - w.cycle_start_time[1]
    IN  IF w.cycle_start_time # None
        THEN [w EXCEPT
                !.metadata = [md EXCEPT ![Len(md)] =
                    DictSet(DictSet(Last(md), "CycleCount", CycleLabel(w.cycle_count)),
                            "CycleTotalHour", StrTimedelta(cycle_duration))],
                !.total_cycle_duration = @ + cycle_duration]
        ELSE w

\* ------------------------------------------------------ totals (79-104)
\* Line 79; metadata[-1] and metadata[0] raise IndexError on an empty list.
TotalTimeDifference(md) ==
    Strptime(Last(md).TimeTaken) - Strptime(At(md, 0).TimeTaken)

SummaryRow(data) ==
    << data.DateTaken, data.TimeTaken, data.Image, data.Pole,
       DictGet(data, "CycleCount", ""), DictGet(data, "CycleTotalHour", "") >>

\* Lines 91-104.  The f-string heading of a row is <<folder_type, text>>.
BuildSummary(md, nfolders, ftype, tcd, cc) ==
    << << <<ftype, "Data Capture (Pole)">>, nfolders >>,
       << <<ftype, "Start Time">>, At(md, 0).TimeTaken >>,
       << <<ftype, "End Time">>, Last(md).TimeTaken >>,
       << <<ftype, "Hours Data Capture (By Battery Cycle)">>, StrTimedelta(tcd) >>,
       << <<ftype, "Battery Cycles">>, cc >>,
       << >>,
       << "DateTaken", "TimeTaken", "Image", "Pole", "CycleCount", "CycleTotalHour" >> >>
    \o [k \in 1..Len(md) |-> SummaryRow(md[k])]


\* ------------------------------------------- process_folder as one function
\* Lines 21-45 over the images of the subfolders, in loop order; an image is
\* [folder, exif] and its file name is its position.
RECURSIVE ScanAll(_, _, _, _)
ScanAll(images, k, md, ftype) ==
    IF k > Len(images) THEN [raised |-> "", metadata |-> md]
    ELSE LET r == ScanImage(md, images[k].exif, k, images[k].folder, ftype)
         IN  IF r.raised # "" THEN r ELSE ScanAll(images, k + 1, r.metadata, ftype)

RECURSIVE WalkFrom(_, _)
WalkFrom(w, i) ==
    IF i < Len(w.metadata) THEN WalkFrom(WalkStep(w, i), i + 1) ELSE w

\* Lines 48-76 on a list whose times all parse.
Segment(md) == TailStep(WalkFrom(WalkInit(SortByTime(md)), 1))

\* process_folder(parent_folder, folder_type) on the tree fs =
\* [folders, images]: [raised, summary].
ProcessFolder(fs, ftype) ==
    LET scan == ScanAll(fs.images, 1, <<>>, ftype) IN
    IF scan.raised # "" THEN [raised |-> scan.raised, summary |-> <<>>]
    ELSE IF ~SortKeyOk(scan.metadata) THEN [raised |-> "ValueError", summary |-> <<>>]
    ELSE LET w == Segment(scan.metadata) IN
         IF w.metadata = <<>> THEN [raised |-> "IndexError", summary |-> <<>>]
         ELSE [raised |-> "",
               summary |-> BuildSummary(w.metadata, fs.folders, ftype,
                                        w.total_cycle_duration, w.cycle_count)]

\* ------------------------------------------------------------------ state
VARIABLES
    pc,                     \* where process_folder is
    exception,              \* the exception process_folder raised, or ""
    folder_type,
    folders,                \* len(folders)
    folder,                 \* the outer loop's position, 1..folders
    scanned,                \* images the inner loop has visited
    metadata,
    i,
    cycle_count,
    cycle_start_time,
    total_cycle_duration,
    total_time_difference,
    summary,
    mpc,                    \* where the __main__ block is
    parent_folders,         \* dict: folder type -> path
    reprompts,              \* "Folder path does not exist." messages printed
    visual_summary,
    thermal_summary,
    csv_file_name,
    csvfile,                \* None until opened, then <<rows written>>
    exit_status             \* None while running, then <<status>>

pfvars == << pc, exception, folder_type, folders, folder, scanned, metadata, i,
             cycle_count, cycle_start_time, total_cycle_duration,
             total_time_difference, summary >>

mainvars == << mpc, parent_folders, reprompts, visual_summary, thermal_summary,
               csv_file_name, csvfile, exit_status >>

vars == << pfvars, mainvars >>

MainIdle ==
    /\ mpc = "idle"
    /\ parent_folders = <<>>
    /\ reprompts = 0
    /\ visual_summary = <<>>
    /\ thermal_summary = <<>>
    /\ csv_file_name = ""
    /\ csvfile = None
    /\ exit_status = None

\* process_folder entered: lines 11-18 done, the locals of lines 51-53 not
\* yet assigned.
PfEntry(ftype, nfolders) ==
    /\ pc = IF nfolders = 0 THEN "sort" ELSE "scan"
    /\ exception = ""
    /\ folder_type = ftype
    /\ folders = nfolders
    /\ folder = 1
    /\ scanned = 0
    /\ metadata = <<>>
    /\ i = 0
    /\ cycle_count = 0
    /\ cycle_start_time = None
    /\ total_cycle_duration = 0
    /\ total_time_difference = 0
    /\ summary = <<>>

Init ==
    /\ \E ftype \in FolderTypes, nfolders \in 0..MaxFolders : PfEntry(ftype, nfolders)
    /\ MainIdle

Raise(e) ==
    /\ pc' = "raised"
    /\ exception' = e

\* One image of the current folder, lines 25-45.
ScanImageStep ==
    /\ pc = "scan"
    /\ scanned < MaxImages
    /\ \E exif \in ExifOutcomes :
         LET r == ScanImage(metadata, exif, scanned + 1, folder, folder_type) IN
         /\ scanned' = scanned + 1
         /\ metadata' = r.metadata
         /\ IF r.raised # "" THEN Raise(r.raised) ELSE UNCHANGED << pc, exception >>
    /\ UNCHANGED << folder_type, folders, folder, i, cycle_count, cycle_start_time,
                    total_cycle_duration, total_time_difference, summary, mainvars >>

\* The current folder has no more images: the outer loop of line 21 goes on.
ScanNextFolder ==
    /\ pc = "scan"
    /\ folder' = folder + 1
    /\ pc' = IF folder + 1 > folders THEN "sort" ELSE "scan"
    /\ UNCHANGED << exception, folder_type, folders, scanned, metadata, i, cycle_count,
                    cycle_start_time, total_cycle_duration, total_time_difference,
                    summary, mainvars >>

\* Lines 48-53: the key function raises ValueError on a time that does not
\* parse, and the list is then left as it was.
Sort ==
    /\ pc = "sort"
    /\ IF SortKeyOk(metadata)
       THEN LET w == WalkInit(SortByTime(metadata)) IN
            /\ metadata' = w.metadata
            /\ cycle_count' = w.cycle_count
            /\ cycle_start_time' = w.cycle_start_time
            /\ total_cycle_duration' = w.total_cycle_duration
            /\ i' = 1
            /\ pc' = IF 1 < Len(w.metadata) THEN "walk" ELSE "tail"
            /\ UNCHANGED exception
       ELSE /\ Raise("ValueError")
            /\ UNCHANGED << metadata, cycle_count, cycle_start_time,
                            total_cycle_duration, i >>
    /\ UNCHANGED << folder_type, folders, folder, scanned, total_time_difference,
                    summary, mainvars >>

Walk ==
    [metadata |-> metadata, cycle_count |-> cycle_count,
     cycle_start_time |-> cycle_start_time,
     total_cycle_duration |-> total_cycle_duration]

\* One iteration of the loop of line 54.
WalkIteration ==
    /\ pc = "walk"
    /\ LET w == WalkStep(Walk, i) IN
       /\ metadata' = w.metadata
       /\ cycle_count' = w.cycle_count
       /\ cycle_start_time' = w.cycle_start_time
       /\ total_cycle_duration' = w.total_cycle_duration
    /\ i' = i + 1
    /\ pc' = IF i + 1 < Len(metadata) THEN "walk" ELSE "tail"
    /\ UNCHANGED << exception, folder_type, folders, folder, scanned,
                    total_time_difference, summary, mainvars >>

\* Lines 71-76.
TrailingCycle ==
    /\ pc = "tail"
    /\ LET w == TailStep(Walk) IN
       /\ metadata' = w.metadata
       /\ cycle_count' = w.cycle_count
       /\ cycle_start_time' = w.cycle_start_time
       /\ total_cycle_duration' = w.total_cycle_duration
    /\ pc' = "report"
    /\ UNCHANGED << exception, folder_type, folders, folder, scanned, i,
                    total_time_difference, summary, mainvars >>

\* Lines 79-104.
Report ==
    /\ pc = "report"
    /\ IF metadata = <<>>
       THEN /\ Raise("IndexError")
            /\ UNCHANGED << total_time_difference, summary >>
       ELSE /\ total_time_difference' = TotalTimeDifference(metadata)
            /\ summary' = BuildSummary(metadata, folders, folder_type,
                                       total_cycle_duration, cycle_count)
            /\ pc' = "returned"
            /\ UNCHANGED exception
    /\ UNCHANGED << folder_type, folders, folder, scanned, metadata, i, cycle_count,
                    cycle_start_time, total_cycle_duration, mainvars >>

\* ------------------------------------------------------- __main__ (106-146)
\* What the operator may type at a folder prompt; "dir" is the one path
\* os.path.exists accepts.
FolderInputs == {"", " ", "nodir", "dir"}

NameInputs == {"", " ", "report"}

\* str.strip() on those inputs
Strip(text) == IF text = " " THEN "" ELSE text

PathExists(path) == path = "dir"

\* The trees a folder path may hold: no subfolder, or one subfolder with up
\* to MaxMainImages images.
RECURSIVE ImageLists(_)
ImageLists(n) ==
    IF n = 0 THEN { <<>> }
    ELSE ImageLists(n - 1) \cup
         { Append(l, [folder |-> 1, exif |-> e]) :
             l \in { x \in ImageLists(n - 1) : Len(x) = n - 1 }, e \in ExifOutcomes }

MainFileSystems ==
    { [folders |-> 0, images |-> <<>>] }
      \cup { [folders |-> 1, images |-> l] : l \in ImageLists(MaxMainImages) }

PfIdle ==
    /\ pc = "idle"
    /\ exception = ""
    /\ folder_type = ""
    /\ folders = 0
    /\ folder = 0
    /\ scanned = 0
    /\ metadata = <<>>
    /\ i = 0
    /\ cycle_count = 0
    /\ cycle_start_time = None
    /\ total_cycle_duration = 0
    /\ total_time_difference = 0
    /\ summary = <<>>

InitMain ==
    /\ PfIdle
    /\ mpc = "prompt_VISUAL"
    /\ parent_folders = <<>>
    /\ reprompts = 0
    /\ visual_summary = <<>>
    /\ thermal_summary = <<>>
    /\ csv_file_name = ""
    /\ csvfile = None
    /\ exit_status = None

Exit(status) ==
    /\ mpc' = "exited"
    /\ exit_status' = <<status>>

\* One answer to the prompt of line 110, lines 109-117.
PromptFolder(ftype, after) ==
    /\ mpc = after[1]
    /\ \E answer \in FolderInputs :
         LET folder_path == Strip(answer) IN
         IF folder_path = ""
         THEN /\ mpc' = after[2]
              /\ UNCHANGED << parent_folders, reprompts >>
         ELSE IF ~PathExists(folder_path)
         THEN /\ reprompts < MaxReprompts
              /\ reprompts' = reprompts + 1
              /\ UNCHANGED << mpc, parent_folders >>
         ELSE /\ parent_folders' = DictSet(parent_folders, ftype, folder_path)
              /\ mpc' = after[2]
              /\ UNCHANGED reprompts
    /\ UNCHANGED << visual_summary, thermal_summary, csv_file_name, csvfile,
                    exit_status, pfvars >>

PromptVisual == PromptFolder("VISUAL", << "prompt_VISUAL", "prompt_THERMAL" >>)

PromptThermal == PromptFolder("THERMAL", << "prompt_THERMAL", "check_folders" >>)

\* CheckFolders without the exit of line 121.
CheckFoldersNoExit ==
    /\ mpc = "check_folders"
    /\ mpc' = "visual"
    /\ UNCHANGED << exit_status, parent_folders, reprompts, visual_summary,
                    thermal_summary, csv_file_name, csvfile, pfvars >>

\* Lines 119-121.
CheckFolders ==
    /\ mpc = "check_folders"
    /\ IF DOMAIN parent_folders = {}
       THEN Exit(1)
       ELSE /\ mpc' = "visual"
            /\ UNCHANGED exit_status
    /\ UNCHANGED << parent_folders, reprompts, visual_summary, thermal_summary,
                    csv_file_name, csvfile, pfvars >>

\* Line 123.  An exception of process_folder is not caught: the interpreter
\* prints the traceback and ends with status 1.
VisualSummary ==
    /\ mpc = "visual"
    /\ IF "VISUAL" \in DOMAIN parent_folders
       THEN \E fs \in MainFileSystems :
              LET r == ProcessFolder(fs, "VISUAL") IN
              IF r.raised # ""
              THEN Exit(1) /\ UNCHANGED visual_summary
              ELSE /\ visual_summary' = r.summary
                   /\ mpc' = "thermal"
                   /\ UNCHANGED exit_status
       ELSE /\ visual_summary' = <<>>
            /\ mpc' = "thermal"
            /\ UNCHANGED exit_status
    /\ UNCHANGED << parent_folders, reprompts, thermal_summary, csv_file_name,
                    csvfile, pfvars >>

\* Line 124.
ThermalSummary ==
    /\ mpc = "thermal"
    /\ IF "THERMAL" \in DOMAIN parent_folders
       THEN \E fs \in MainFileSystems :
              LET r == ProcessFolder(fs, "THERMAL") IN
              IF r.raised # ""
              THEN Exit(1) /\ UNCHANGED thermal_summary
              ELSE /\ thermal_summary' = r.summary
                   /\ mpc' = "pad"
                   /\ UNCHANGED exit_status
       ELSE /\ thermal_summary' = <<>>
            /\ mpc' = "pad"
            /\ UNCHANGED exit_status
    /\ UNCHANGED << parent_folders, reprompts, visual_summary, csv_file_name,
                    csvfile, pfvars >>

EmptyRow == << "", "", "", "", "", "" >>

PadTo(rows, n) == rows \o [k \in 1..(n - Len(rows)) |-> EmptyRow]

\* Lines 127-134.
PadSummaries ==
    /\ mpc = "pad"
    /\ LET max_length == IF Len(visual_summary) >= Len(thermal_summary)
                         THEN Len(visual_summary) ELSE Len(thermal_summary)
       IN  /\ visual_summary' = PadTo(visual_summary, max_length)
           /\ thermal_summary' = PadTo(thermal_summary, max_length)
    /\ mpc' = "ask_name"
    /\ UNCHANGED << parent_folders, reprompts, csv_file_name, csvfile, exit_status,
                    pfvars >>

\* Lines 137-140.
AskCsvName ==
    /\ mpc = "ask_name"
    /\ \E answer \in NameInputs :
         /\ csv_file_name' = Strip(answer)
         /\ IF Strip(answer) = ""
            THEN Exit(1)
            ELSE /\ mpc' = "write"
                 /\ UNCHANGED exit_status
    /\ UNCHANGED << parent_folders, reprompts, visual_summary, thermal_summary,
                    csvfile, pfvars >>

\* Lines 142-146, and the normal end of the script.
WriteCsv ==
    /\ mpc = "write"
    /\ csvfile' = << [k \in 1..Len(visual_summary) |->
                        visual_summary[k] \o << "", "" >> \o thermal_summary[k]] >>
    /\ Exit(0)
    /\ UNCHANGED << parent_folders, reprompts, visual_summary, thermal_summary,
                    csv_file_name, pfvars >>

NextMain ==
    \/ PromptVisual
    \/ PromptThermal
    \/ CheckFolders
    \/ VisualSummary
    \/ ThermalSummary
    \/ PadSummaries
    \/ AskCsvName
    \/ WriteCsv

SpecMain == InitMain /\ [][NextMain]_vars

\* --------------------------------------------------- the four-image scenario
ScenarioTimes == << <<9, 0, 0>>, <<9, 0, 30>>, <<9, 5, 0>>, <<9, 5, 20>> >>

\* One image of the current folder, lines 25-45, when the images are the
\* scenario's four, found in any order.
ScanScenarioImage ==
    /\ pc = "scan"
    /\ \E n \in 1..Len(ScenarioTimes) :
         LET exif == [kind |-> "Tag", tokens |-> <<DateToken, ScenarioTimes[n]>>]
             r == ScanImage(metadata, exif, scanned + 1, folder, folder_type)
         IN  /\ \A k \in 1..Len(metadata) : metadata[k].TimeTaken # ScenarioTimes[n]
             /\ scanned' = scanned + 1
             /\ metadata' = r.metadata
    /\ UNCHANGED << pc, exception, folder_type, folders, folder, i, cycle_count,
                    cycle_start_time, total_cycle_duration, total_time_difference,
                    summary, mainvars >>

NextScenario ==
    \/ ScanScenarioImage
    \/ ScanNextFolder
    \/ Sort
    \/ WalkIteration
    \/ TrailingCycle
    \/ Report

SpecScenario == Init /\ [][NextScenario]_vars

Next ==
    \/ ScanImageStep
    \/ ScanNextFolder
    \/ Sort
    \/ WalkIteration
    \/ TrailingCycle
    \/ Report

Spec == Init /\ [][Next]_vars

\* ---------------------------------------------------------------- properties
\* Closed forms over the sorted list, independent of the walk's code.
TimeAt(md, k) == Strptime(At(md, k).TimeTaken)

HasLabel(md, k) == "CycleCount" \in DOMAIN At(md, k)

HasDuration(md, k) == "CycleTotalHour" \in DOMAIN At(md, k)

\* Number of pairs (k-1, k), 1 <= k <= r, whose gap is at least 60 seconds.
Boundaries(md, r) ==
    Cardinality({ k \in 1..r : TimeAt(md, k) - TimeAt(md, k - 1) >= 60 })

\* Record r is the last of its maximal run of gaps < 60 s.
IsCycleLast(md, r) ==
    r = Len(md) - 1 \/ TimeAt(md, r + 1) - TimeAt(md, r) >= 60

\* The first record of the maximal run that holds record r.
CycleFirst(md, r) ==
    CHOOSE s \in 0..r :
        /\ \A k \in (s + 1)..r : TimeAt(md, k) - TimeAt(md, k - 1) < 60
        /\ s = 0 \/ TimeAt(md, s) - TimeAt(md, s - 1) >= 60

\* 'H:MM:SS' read back as seconds.
TimedeltaSeconds(hms) == hms[1] * 3600 + hms[2] * 60 + hms[3]

RECURSIVE SumDurations(_, _)
SumDurations(md, n) ==
    IF n = 0 THEN 0
    ELSE SumDurations(md, n - 1)
         + (IF HasDuration(md, n - 1)
            THEN TimedeltaSeconds(At(md, n - 1).CycleTotalHour) ELSE 0)

NumDurations(md) == Cardinality({ r \in 0..(Len(md) - 1) : HasDuration(md, r) })

NumSingleRecordCycles(md) ==
    Cardinality({ r \in 0..(Len(md) - 1) : IsCycleLast(md, r) /\ CycleFirst(md, r) = r })

AfterSort == pc \in {"walk", "tail", "report", "returned"}

AfterWalk == pc \in {"report", "returned"}

\* Pairs the walk has handled: all of them once the loop is over.
Handled == IF pc = "walk" THEN 1..(i - 1) ELSE 1..(Len(metadata) - 1)

\* C1: in a sorted list of at least 2 records, once the walk has handled the
\* pair (j-1, j): if the gap is >= 60 s, record j-1 carries 'CYCLE n' with
\* n = 1 + the number of >= 60 s gaps among the earlier pairs, and record j
\* starts cycle n+1 (the counter stands at n+1 after the pair, and a label
\* put on record j is 'CYCLE n+1'); if the gap is < 60 s the counter is
\* unchanged and record j-1 carries no label, then and ever after.
C1_PairsLabelled ==
    (AfterSort /\ Len(metadata) >= 2) =>
        /\ \A j \in Handled :
             IF Gap(metadata, j) >= 60
             THEN /\ HasLabel(metadata, j - 1)
                  /\ At(metadata, j - 1).CycleCount
                       = <<"CYCLE", 1 + Boundaries(metadata, j - 1)>>
                  /\ HasLabel(metadata, j) =>
                       At(metadata, j).CycleCount
                         = <<"CYCLE", 2 + Boundaries(metadata, j - 1)>>
             ELSE ~HasLabel(metadata, j - 1)
        /\ pc \in {"walk", "tail"} => cycle_count = 1 + Boundaries(metadata, i - 1)

C1_Witness ==
    /\ pc = "returned"
    /\ Len(metadata) >= 3
    /\ \E j \in 1..(Len(metadata) - 1) : Gap(metadata, j) >= 60
    /\ \E j \in 1..(Len(metadata) - 1) : Gap(metadata, j) < 60

ScenarioReturned ==
    /\ pc = "returned"
    /\ Len(metadata) = Len(ScenarioTimes)
    /\ \A k \in 1..Len(ScenarioTimes) : metadata[k].TimeTaken = ScenarioTimes[k]

\* What the scenario's run records, apart from the cycle count.
ScenarioCycles ==
    /\ ~HasLabel(metadata, 0)
    /\ At(metadata, 1).CycleCount = <<"CYCLE", 1>>
    /\ At(metadata, 1).CycleTotalHour = <<0, 0, 30>>
    /\ ~HasLabel(metadata, 2)
    /\ At(metadata, 3).CycleCount = <<"CYCLE", 2>>
    /\ At(metadata, 3).CycleTotalHour = <<0, 0, 20>>
    /\ total_cycle_duration = 50
    /\ summary[4][2] = <<0, 0, 50>>

\* C3 as stated: on [09:00:00, 09:00:30, 09:05:00, 09:05:20] the cycles are
\* {09:00:00, 09:00:30} (30 s) and {09:05:00, 09:05:20} (20 s), the total is
\* 50 s, and the reported cycleCount is 3.
C3_Original ==
    ScenarioReturned => (ScenarioCycles /\ cycle_count = 3 /\ summary[5][2] = 3)

\* C3 amended: the same cycles, durations and total, and a reported
\* cycleCount of 2.
C3_Scenario ==
    ScenarioReturned => (ScenarioCycles /\ cycle_count = 2 /\ summary[5][2] = 2)

C3_Witness == ScenarioReturned /\ \E k \in 1..3 : metadata[k].Image > metadata[k + 1].Image

\* C4: with fewer than 2 qualifying records process_folder neither returns a
\* summary nor fails with an indexing fault; it raises DataError.
C4_DataErrorOnFewRecords ==
    /\ ~(pc = "returned" /\ Len(metadata) < 2)
    /\ ~(pc = "raised" /\ exception = "IndexError")

\* C5: no image whose timestamp cannot be read or parsed aborts
\* process_folder: it never ends in the ValueError of the unpacking of
\* line 36 or of strptime in line 48.
C5_BadTimestampSkipped == ~(pc = "raised" /\ exception = "ValueError")

MaxTime(md) == CHOOSE t \in { TimeAt(md, k) : k \in 0..(Len(md) - 1) } :
                   \A k \in 0..(Len(md) - 1) : TimeAt(md, k) <= t

MinTime(md) == CHOOSE t \in { TimeAt(md, k) : k \in 0..(Len(md) - 1) } :
                   \A k \in 0..(Len(md) - 1) : t <= TimeAt(md, k)

\* C6: for a non-empty list totalTimeDifference is the latest time minus the
\* earliest time of the records, whatever labels and durations the walk put
\* on them, it is last-minus-first of the sorted list, and it is >= 0.
C6_TotalTimeDifference ==
    pc = "returned" =>
        /\ total_time_difference = MaxTime(metadata) - MinTime(metadata)
        /\ total_time_difference = TimeAt(metadata, Len(metadata) - 1) - TimeAt(metadata, 0)
        /\ total_time_difference >= 0

C6_Witness ==
    /\ pc = "returned"
    /\ total_time_difference > 0
    /\ \E k \in 1..(Len(metadata) - 1) : metadata[k].Image > metadata[k + 1].Image
    /\ \E k \in 0..(Len(metadata) - 1) : HasDuration(metadata, k)

ScannedKeys == {"DateTaken", "TimeTaken", "Image", "Pole", "Type"}

\* The record as the scan made it: labels and durations dropped.
StripLabels(data) == [k \in ScannedKeys |-> data[k]]

\* C7: sorting and walking the output again, its labels and durations
\* dropped, gives the same order, labels, durations, total and count.
C7_Idempotent ==
    AfterWalk =>
        LET again == Segment([k \in 1..Len(metadata) |-> StripLabels(metadata[k])])
        IN  /\ again.metadata = metadata
            /\ again.total_cycle_duration = total_cycle_duration
            /\ again.cycle_count = cycle_count

C7_Witness ==
    /\ pc = "returned"
    /\ \E k \in 1..(Len(metadata) - 1) : Gap(metadata, k) = 0
    /\ \E k \in 0..(Len(metadata) - 1) : HasLabel(metadata, k)

\* C8: with no folder given the script exits with a non-zero status before
\* any folder is processed; with an empty file name it exits with a non-zero
\* status; a CSV file is opened only with a folder and a file name, and every
\* exit without a CSV file has a non-zero status.
C8_ConfigurationErrors ==
    /\ DOMAIN parent_folders = {} =>
         /\ mpc \in {"prompt_VISUAL", "prompt_THERMAL", "check_folders", "exited"}
         /\ visual_summary = <<>> /\ thermal_summary = <<>>
         /\ csvfile = None
         /\ mpc = "exited" => exit_status = <<1>>
    /\ mpc = "write" => csv_file_name # ""
    /\ csvfile # None => (csv_file_name # "" /\ DOMAIN parent_folders # {})
    /\ mpc = "exited" =>
         IF csvfile = None THEN exit_status = <<1>> ELSE exit_status = <<0>>

\* The file name prompt was answered with nothing after both summaries were
\* built and padded.
C8_Witness ==
    /\ mpc = "exited"
    /\ Len(visual_summary) > 0
    /\ Len(visual_summary) = Len(thermal_summary)
    /\ csv_file_name = ""
    /\ csvfile = None
    /\ exit_status = <<1>>

\* C9: for at least 1 record the cycleCount reported is the final counter,
\* 1 + the number of adjacent pairs of the sorted list with a gap >= 60 s.
C9_CycleCount ==
    pc = "returned" =>
        /\ cycle_count = 1 + Boundaries(metadata, Len(metadata) - 1)
        /\ summary[5][2] = cycle_count

C9_Witness ==
    /\ pc = "returned"
    /\ Len(metadata) >= 3
    /\ Boundaries(metadata, Len(metadata) - 1) >= 2

\* C10 as stated: for at least 2 records, cycleCount minus the number of
\* records that carry a cycleDuration is 0 or 1.
C10_Original ==
    (pc = "returned" /\ Len(metadata) >= 2) =>
        cycle_count - NumDurations(metadata) \in {0, 1}

\* C10 amended: for at least 2 records, cycleCount minus the number of
\* records that carry a cycleDuration is the number of cycles made of a
\* single record: at least 0, and at most cycleCount.
C10_OvercountIsSingleRecordCycles ==
    (pc = "returned" /\ Len(metadata) >= 2) =>
        /\ cycle_count - NumDurations(metadata) = NumSingleRecordCycles(metadata)
        /\ cycle_count - NumDurations(metadata) \in 0..cycle_count

C10_Witness ==
    /\ pc = "returned"
    /\ Len(metadata) >= 2
    /\ cycle_count - NumDurations(metadata) >= 2

====
